---- MODULE Spec2Model ----
(***************************************************************************)
(* Spam detection service: the text normalizer (SpamDetector.clean_text),  *)
(* the prediction pipeline (SpamDetector.predict) and the FastAPI          *)
(* endpoints of backend/main.py that call it.                              *)
(*                                                                         *)
(* Strings are sequences of one-character strings.  Real numbers are fixed *)
(* point: a raw score n stands for n / ScoreDen, a confidence or a         *)
(* confidence percentage n stands for n / ConfDen.                         *)
(***************************************************************************)
EXTENDS Integers, Sequences, FiniteSets, TLC

VARIABLES
    text,           \* normalizer run: the raw input string
    cleaned,        \* normalizer run: clean_text(text), once computed
    recleaned,      \* normalizer run: clean_text(cleaned), once computed
    cleanpc,        \* normalizer run: "input" | "cleaned" | "recleaned"
    url_parts,      \* URL run: the strings x, u, y that text is built from
    cleaned_plain,  \* URL run: clean_text(x + ' ' + y), once computed
    spam_detector,  \* main.py global: NotStarted | None | the loaded artifacts
    request,        \* the last HTTP request handled
    response,       \* what its handler returned or raised
    predict_log,    \* the calls of spam_detector.predict made by that handler
    calls,          \* concurrent run: the calls of predict in progress, per caller
    predictionHistory,  \* App.js state: the array of prediction records
    downloads,      \* the file the browser last downloaded from saveToJSON
    saved_data,     \* the argument data of the saveToJSON call that wrote it
    readers,        \* App.js: the files whose FileReader has not called back
    alerted,        \* the message of the last window.alert
    emailText,      \* EmailClassifier state: the text in the form
    loading,        \* EmailClassifier state
    error,          \* EmailClassifier state: the error message shown
    dropped,        \* EmailClassifier: the texts of the dropped files being read
    in_flight,      \* the texts of the /predict requests not yet answered
    statistics,     \* App.js state: null or the data of GET /statistics
    stats_in_flight,    \* whether some GET /statistics is not yet answered
    history_request,    \* the startup GET /predictions: "pending" | "answered"
    tabValue,       \* App.js state: the tab shown, 0..3
    page,           \* PredictionHistory state: the page of the table
    props,          \* Charts run: the props of the component
    rendered        \* Charts run: the chart data computed from it

vars == <<text, cleaned, recleaned, cleanpc, url_parts, cleaned_plain,
          spam_detector, request, response, predict_log, calls,
          predictionHistory, downloads, saved_data, readers, alerted,
          emailText, loading, error, dropped, in_flight,
          statistics, stats_in_flight, history_request, tabValue, page,
          props, rendered>>

urlVars == <<url_parts, cleaned_plain>>
cleanVars == <<text, cleaned, recleaned, cleanpc, url_parts, cleaned_plain>>
serviceVars == <<spam_detector, request, response, predict_log, calls>>
appVars == <<predictionHistory, downloads, saved_data, readers, alerted>>
formVars == <<emailText, loading, error, dropped, in_flight>>
sessionVars == <<statistics, stats_in_flight, history_request, tabValue, page>>
chartVars == <<props, rendered>>

----------------------------------------------------------------------------
(* Bounds of the model *)

MaxLen == 6         \* longest raw string given to the normalizer run
MaxPart == 2        \* URL run: most characters around the URL (x and y together)
MaxTail == 2        \* URL run: most characters of the URL after 'http'
NumCallers == 2     \* concurrent run: callers of predict on the one detector
MaxHistory == 2     \* App run: most records in predictionHistory
MaxReads == 1       \* App run: most FileReaders reading at one time
MaxDrop == 2        \* form run: most dropped files being read at one time
MaxPoints == 2      \* Charts run: longest list of arbitrary predictions
MaxBatch == 2       \* longest list of emails in a /predict-batch request
MaxWeight == 4      \* classifier weights range over -MaxWeight..MaxWeight
ScoreDen == 2       \* a raw score n stands for n / ScoreDen

----------------------------------------------------------------------------
(* Characters *)

LowerLetters == {"h", "t", "p", "a"}
UpperLetters == {"H"}
Whitespace == {" ", "\n"}
Others == {"1"}                 \* digits, punctuation, non-ASCII
Chars == LowerLetters \cup UpperLetters \cup Whitespace \cup Others

IsSpace(c) == c \in Whitespace

\* str.lower() on one character
LowerChar(c) == IF c = "H" THEN "h" ELSE c

lower(s) == [i \in 1..Len(s) |-> LowerChar(s[i])]

\* the rest of s after its leading run of non-whitespace characters
RECURSIVE DropNonSpace(_)
DropNonSpace(s) ==
    IF s = <<>> \/ IsSpace(Head(s)) THEN s ELSE DropNonSpace(Tail(s))

\* re.sub(r'http', '', s): the pattern without its \S+
RECURSIVE remove_urls_scheme_only(_)
remove_urls_scheme_only(s) ==
    IF s = <<>> THEN <<>>
    ELSE IF Len(s) >= 4 /\ SubSeq(s, 1, 4) = <<"h", "t", "t", "p">>
         THEN remove_urls_scheme_only(SubSeq(s, 5, Len(s)))
         ELSE <<Head(s)>> \o remove_urls_scheme_only(Tail(s))

\* re.sub(r'http\S+', '', s): leftmost, greedy, non-overlapping matches
RECURSIVE remove_urls(_)
remove_urls(s) ==
    IF s = <<>> THEN <<>>
    ELSE IF /\ Len(s) >= 5
            /\ SubSeq(s, 1, 4) = <<"h", "t", "t", "p">>
            /\ ~IsSpace(s[5])
         THEN remove_urls(DropNonSpace(SubSeq(s, 5, Len(s))))
         ELSE <<Head(s)>> \o remove_urls(Tail(s))

\* re.sub(r'[^a-z\s]', '', s)
KeepsChar(c) == c \in LowerLetters \/ IsSpace(c)

remove_non_alpha(s) == SelectSeq(s, KeepsChar)

\* the rest of s after its leading run of whitespace characters
RECURSIVE DropSpace(_)
DropSpace(s) ==
    IF s = <<>> \/ ~IsSpace(Head(s)) THEN s ELSE DropSpace(Tail(s))

\* re.sub(r'\s+', ' ', s): every run of whitespace becomes one space
RECURSIVE collapse_whitespace(_)
collapse_whitespace(s) ==
    IF s = <<>> THEN <<>>
    ELSE IF IsSpace(Head(s))
         THEN <<" ">> \o collapse_whitespace(DropSpace(s))
         ELSE <<Head(s)>> \o collapse_whitespace(Tail(s))

\* the rest of s before its trailing run of whitespace characters
RECURSIVE DropTrailingSpace(_)
DropTrailingSpace(s) ==
    IF s = <<>> \/ ~IsSpace(s[Len(s)]) THEN s
    ELSE DropTrailingSpace(SubSeq(s, 1, Len(s) - 1))

\* str.strip()
strip(s) == DropTrailingSpace(DropSpace(s))

\* clean_text with the whitespace collapse moved before the removal of the
\* non-alphabetic characters
clean_text_collapse_first(s) ==
    remove_non_alpha(strip(collapse_whitespace(remove_urls(lower(s)))))

\* clean_text without the lowercasing
clean_text_no_lower(s) ==
    strip(collapse_whitespace(remove_non_alpha(remove_urls(s))))

\* clean_text without the final strip()
clean_text_no_strip(s) ==
    collapse_whitespace(remove_non_alpha(remove_urls(lower(s))))

\* SpamDetector.clean_text
clean_text(s) ==
    strip(collapse_whitespace(remove_non_alpha(remove_urls(lower(s)))))

----------------------------------------------------------------------------
(* The loaded artifacts.  The fitted vectorizer counts the terms of its    *)
(* vocabulary in the cleaned text; the fitted linear classifier holds one  *)
(* weight per term and an intercept, in units of 1 / ScoreDen.             *)

SatScore == 3                   \* the divisor of min(1.0, confidence / 3.0)
ConfDen == SatScore * ScoreDen  \* a confidence n stands for n / ConfDen

Vocabulary == {<<"t">>}

Weights == (0 - MaxWeight)..MaxWeight

Artifacts == [intercept : Weights, coef : [Vocabulary -> Weights]]

\* the global spam_detector of main.py: not assigned before the module has
\* run, None after a failed load, a SpamDetector after a successful one
NotStarted == [state |-> "NotStarted"]
None == [state |-> "None"]
SpamDetector(m) == [state |-> "Loaded", model |-> m]

Abs(x) == IF x < 0 THEN 0 - x ELSE x
Min(x, y) == IF x <= y THEN x ELSE y

\* the number of words of the cleaned text s that are the term w
TermCount(w, s) ==
    Cardinality({i \in 1..(Len(s) - Len(w) + 1) :
        /\ SubSeq(s, i, i + Len(w) - 1) = w
        /\ (i = 1 \/ s[i - 1] = " ")
        /\ (i + Len(w) - 1 = Len(s) \/ s[i + Len(w)] = " ")})

\* self.vectorizer.transform([cleaned_text])
transform(s) == [w \in Vocabulary |-> TermCount(w, s)]

RECURSIVE Dot(_, _, _)
Dot(coef, vector, terms) ==
    IF terms = {} THEN 0
    ELSE LET w == CHOOSE x \in terms : TRUE
         IN coef[w] * vector[w] + Dot(coef, vector, terms \ {w})

\* self.model.decision_function(vectorized_text)[0]
decision_function(model, vector) ==
    model.intercept + Dot(model.coef, vector, Vocabulary)

\* self.model.predict(vectorized_text)[0]: the class on the positive side of
\* the hyperplane is 1 (spam), a score of 0 or below is 0 (ham)
model_predict(model, vector) ==
    IF decision_function(model, vector) > 0 THEN 1 ELSE 0

----------------------------------------------------------------------------
(* SpamDetector.predict *)

normalized_unclamped(confidence_score) == Abs(confidence_score)

normalized_signed(confidence_score) == Min(ConfDen, confidence_score)

\* min(1.0, abs(confidence_score) / 3.0), in units of 1 / ConfDen
normalized_confidence(confidence_score) == Min(ConfDen, Abs(confidence_score))

percentage_of_score(confidence_score, normalized) ==
    Abs(confidence_score) * 100

\* float(normalized_confidence * 100), in units of 1 / ConfDen
confidence_percentage(confidence_score, normalized) == normalized * 100

prediction_name_swapped(prediction) == IF prediction = 0 THEN "Spam" ELSE "Ham"

\* "Spam" if prediction == 1 else "Ham"
prediction_name(prediction) == IF prediction = 1 THEN "Spam" ELSE "Ham"

raw_score_magnitude(confidence_score) == Abs(confidence_score)

\* float(confidence_score)
raw_score_of(confidence_score) == confidence_score

predict(model, email_text) ==
    LET cleaned_text == clean_text(email_text)
        vectorized_text == transform(cleaned_text)
        prediction == model_predict(model, vectorized_text)
        confidence_score == decision_function(model, vectorized_text)
        normalized == normalized_confidence(confidence_score)
    IN  [prediction |-> prediction_name(prediction),
         label |-> prediction,
         confidence |-> normalized,
         confidence_percentage |->
             confidence_percentage(confidence_score, normalized),
         raw_score |-> raw_score_of(confidence_score)]

----------------------------------------------------------------------------
(* backend/main.py: what a handler returns or raises, and the calls of     *)
(* spam_detector.predict it makes.  raises tells whether the vectorizer or *)
(* the classifier raises during a call of predict.                         *)

Returned(body) == [status_code |-> 200, body |-> body]
HTTPException(status_code, detail) ==
    [status_code |-> status_code, detail |-> detail]

Outcome(resp, made) == [response |-> resp, calls |-> made]

\* not email.text.strip()
IsBlank(s) == strip(s) = <<>>

root_outcome == Outcome(Returned([message |-> "Spam Email Detection API"]), <<>>)

health_check_always_healthy(detector) ==
    Outcome(Returned([status |-> "healthy", model_loaded |-> TRUE]), <<>>)

health_check_outcome(detector) ==
    IF detector = None
    THEN Outcome(HTTPException(503, "Model not loaded"), <<>>)
    ELSE Outcome(Returned([status |-> "healthy", model_loaded |-> TRUE]), <<>>)

\* get_model_info without the check of the detector
get_model_info_unguarded(detector) ==
    Outcome(Returned([model_type |-> "Linear SVM"]), <<>>)

get_model_info_outcome(detector) ==
    IF detector = None
    THEN Outcome(HTTPException(503, "Model not initialized"), <<>>)
    ELSE Outcome(Returned([model_type |-> "Linear SVM"]), <<>>)

\* predict_email answering a raising predict with a default result
predict_email_swallows_errors(detector, email_text, raises) ==
    IF detector = None
    THEN Outcome(HTTPException(503, "Model not initialized"), <<>>)
    ELSE IF IsBlank(email_text)
    THEN Outcome(HTTPException(500,
             "Prediction failed: 400: Email text cannot be empty"), <<>>)
    ELSE IF raises
    THEN Outcome(Returned([prediction |-> "Ham", label |-> 0, confidence |-> 0,
                           confidence_percentage |-> 0, raw_score |-> 0]),
                 <<email_text>>)
    ELSE Outcome(Returned(predict(detector.model, email_text)),
                 <<email_text>>)

\* predict_email refusing a text whose cleaned form is empty
predict_email_rejects_empty_cleaned(detector, email_text, raises) ==
    IF detector = None
    THEN Outcome(HTTPException(503, "Model not initialized"), <<>>)
    ELSE IF IsBlank(email_text) \/ clean_text(email_text) = <<>>
    THEN Outcome(HTTPException(500,
             "Prediction failed: 400: Email text cannot be empty"), <<>>)
    ELSE IF raises
    THEN Outcome(HTTPException(500, "Prediction failed: predict raised"),
                 <<email_text>>)
    ELSE Outcome(Returned(predict(detector.model, email_text)),
                 <<email_text>>)

\* the HTTPException(400) is raised inside the try block, whose
\* 'except Exception' catches it and raises the 500 in its place
predict_email_outcome(detector, email_text, raises) ==
    IF detector = None
    THEN Outcome(HTTPException(503, "Model not initialized"), <<>>)
    ELSE IF IsBlank(email_text)
    THEN Outcome(HTTPException(500,
             "Prediction failed: 400: Email text cannot be empty"), <<>>)
    ELSE IF raises
    THEN Outcome(HTTPException(500, "Prediction failed: predict raised"),
                 <<email_text>>)
    ELSE Outcome(Returned(predict(detector.model, email_text)),
                 <<email_text>>)

\* the entry appended for batch.emails[idx], idx counted from 0
batch_entry_one_based(detector, emails, idx) ==
    IF IsBlank(emails[idx + 1])
    THEN [index |-> idx + 1, error |-> "Empty email text"]
    ELSE [index |-> idx + 1] @@ predict(detector.model, emails[idx + 1])

batch_entry(detector, emails, idx) ==
    IF IsBlank(emails[idx + 1])
    THEN [index |-> idx, error |-> "Empty email text"]
    ELSE [index |-> idx] @@ predict(detector.model, emails[idx + 1])

\* r.get("prediction") == "Spam"
IsSpamEntry(r) == "prediction" \in DOMAIN r /\ r.prediction = "Spam"

\* the positions (from 1) at which the loop calls predict and predict raises
RaisingCalls(emails, raises) ==
    {i \in 1..Len(emails) : ~IsBlank(emails[i]) /\ raises[i]}

\* the emails (from 1 to last) the loop has passed to predict
CallsUpTo(emails, last) ==
    SelectSeq(SubSeq(emails, 1, last), LAMBDA e : ~IsBlank(e))

predict_batch_outcome(detector, emails, raises) ==
    IF detector = None
    THEN Outcome(HTTPException(503, "Model not initialized"), <<>>)
    ELSE IF RaisingCalls(emails, raises) # {}
    THEN LET first == CHOOSE i \in RaisingCalls(emails, raises) :
                          \A j \in RaisingCalls(emails, raises) : i <= j
         IN  Outcome(HTTPException(500,
                 "Batch prediction failed: predict raised"),
                 CallsUpTo(emails, first))
    ELSE LET results == [i \in 1..Len(emails) |->
                            batch_entry(detector, emails, i - 1)]
             spam_count == Cardinality({i \in 1..Len(results) :
                                           IsSpamEntry(results[i])})
         IN  Outcome(Returned([total |-> Len(results),
                               spam_count |-> spam_count,
                               ham_count |-> Len(results) - spam_count,
                               results |-> results]),
                     CallsUpTo(emails, Len(emails)))

----------------------------------------------------------------------------
(* The normalizer run: clean_text applied to a raw string, then to its own *)
(* output.                                                                 *)

NoText == <<"?">>       \* not computed yet (no string of Chars)

NoRequest == [endpoint |-> "none"]
NoResponse == [status_code |-> 0]

Callers == 1..NumCallers

\* a caller that is not inside predict
IdleCall ==
    [pc |-> "idle", email_text |-> <<>>, cleaned_text |-> NoText,
     vectorized_text |-> [w \in Vocabulary |-> 0], prediction |-> 0,
     confidence_score |-> 0, result |-> [prediction |-> "none"]]

InitService ==
    /\ spam_detector = NotStarted
    /\ request = NoRequest
    /\ response = NoResponse
    /\ predict_log = <<>>
    /\ calls = [c \in Callers |-> IdleCall]

NoParts == [x |-> <<>>, u |-> <<>>, y |-> <<>>]

InitUrlIdle ==
    /\ url_parts = NoParts
    /\ cleaned_plain = NoText

\* no file: nothing downloaded, nothing chosen
NoFile == [name |-> <<>>, content |-> <<>>]

\* window.alert has not been called
NoAlert == [message |-> "", detail |-> "", added |-> 0, total |-> 0]

InitAppIdle ==
    /\ predictionHistory = <<>>
    /\ downloads = NoFile
    /\ saved_data = <<>>
    /\ readers = <<>>
    /\ alerted = NoAlert

\* GET /statistics has no answer to give
NoStatistics == [state |-> "null"]

\* the chart data before the component has rendered
NotRendered == [state |-> "not rendered"]

\* the App once its startup GET /predictions is answered, before the answer
\* of its startup GET /statistics, on the classifier tab
InitSessionIdle ==
    /\ statistics = NoStatistics
    /\ stats_in_flight = TRUE
    /\ history_request = "answered"
    /\ tabValue = 0
    /\ page = 1

InitChartsIdle ==
    /\ props = [predictions |-> <<>>]
    /\ rendered = NotRendered

\* the classifier form as it is first rendered
InitFormIdle ==
    /\ emailText = <<>>
    /\ loading = FALSE
    /\ error = ""
    /\ dropped = <<>>
    /\ in_flight = <<>>

InitClean ==
    /\ \E k \in 0..MaxLen : text \in [1..k -> Chars]
    /\ cleaned = NoText
    /\ recleaned = NoText
    /\ cleanpc = "input"
    /\ InitUrlIdle
    /\ InitService
    /\ InitAppIdle
    /\ InitFormIdle
    /\ InitSessionIdle
    /\ InitChartsIdle

Clean ==
    /\ cleanpc = "input"
    /\ cleaned' = clean_text(text)
    /\ cleanpc' = "cleaned"
    /\ UNCHANGED <<text, recleaned, urlVars, serviceVars, sessionVars,
                   chartVars, appVars, formVars>>

CleanAgain ==
    /\ cleanpc = "cleaned"
    /\ recleaned' = clean_text(cleaned)
    /\ cleanpc' = "recleaned"
    /\ UNCHANGED <<text, cleaned, urlVars, serviceVars, sessionVars,
                   chartVars, appVars, formVars>>

NextClean == Clean \/ CleanAgain

SpecClean == InitClean /\ [][NextClean]_vars

\* s holds 'http' followed by a non-whitespace character
HasUrl(s) ==
    \E i \in 1..(Len(s) - 4) :
        SubSeq(s, i, i + 3) = <<"h", "t", "t", "p">> /\ ~IsSpace(s[i + 4])

\* s is made of a-z and single spaces, with no space at either end
Normalized(s) ==
    /\ \A i \in 1..Len(s) : s[i] \in LowerLetters \cup {" "}
    /\ \A i \in 1..(Len(s) - 1) : ~(s[i] = " " /\ s[i + 1] = " ")
    /\ s # <<>> => (s[1] # " " /\ s[Len(s)] # " ")

\* C1 as stated: clean(clean(s)) = clean(s) for every string s.
C1_IdempotentAlways ==
    cleanpc = "recleaned" => recleaned = cleaned

\* C1, amended: clean(clean(s)) = clean(s) for every string s whose clean(s)
\* holds no 'http' followed by a letter (deleting the non-letters of s can
\* form such a run, as in 'h1ttpa', and the second pass then deletes it).
C1_IdempotentWithoutUrl ==
    (cleanpc = "recleaned" /\ ~HasUrl(cleaned)) => recleaned = cleaned

\* a raw string that starts with whitespace and loses characters to a
\* cleaned text of two words, cleaned again
C1_Witness ==
    /\ cleanpc = "recleaned"
    /\ ~HasUrl(cleaned)
    /\ text # <<>>
    /\ IsSpace(text[1])
    /\ Len(cleaned) < Len(text) - 1
    /\ \E i \in 1..Len(cleaned) : cleaned[i] = " "

\* C2: for every input string the output of clean holds only a-z and the
\* single space, never two consecutive spaces and no leading or trailing
\* space.
C2_OutputNormalized ==
    cleanpc # "input" => Normalized(cleaned)

\* a string of full length with whitespace at both ends and doubled
\* whitespace inside has been cleaned to several words
C2_Witness ==
    /\ cleanpc = "cleaned"
    /\ Len(text) = MaxLen
    /\ IsSpace(text[1]) /\ IsSpace(text[Len(text)])
    /\ \E i \in 1..(Len(text) - 1) : IsSpace(text[i]) /\ IsSpace(text[i + 1])
    /\ \E i \in 1..Len(cleaned) : cleaned[i] = " "

\* s holds no letter of either case
NoLetters(s) ==
    \A i \in 1..Len(s) : s[i] \notin LowerLetters \cup UpperLetters

\* a word of s starts at i
StartsWord(s, i) == ~IsSpace(s[i]) /\ (i = 1 \/ IsSpace(s[i - 1]))

\* s is made of whitespace and of words that are 'http', in any letter
\* case, followed by at least one more character
OnlyUrlWords(s) ==
    \A i \in 1..Len(s) :
        StartsWord(s, i) =>
            /\ i + 4 <= Len(s)
            /\ lower(SubSeq(s, i, i + 3)) = <<"h", "t", "t", "p">>
            /\ ~IsSpace(s[i + 4])

\* C15: clean returns the empty string for the empty string, for every
\* string with no letters, and for every string made only of whitespace and
\* of words that begin with 'http' (any case) and go on for at least one
\* more non-whitespace character.
C15_NothingLeftToKeep ==
    (cleanpc # "input" /\ (NoLetters(text) \/ OnlyUrlWords(text))) =>
        cleaned = <<>>

\* a URL word with a capital and a letter tail between whitespace, cleaned
C15_Witness ==
    /\ cleanpc = "cleaned"
    /\ Len(text) = MaxLen
    /\ OnlyUrlWords(text)
    /\ ~NoLetters(text)
    /\ \E i \in 1..Len(text) : text[i] \in UpperLetters
    /\ text[Len(text)] \in LowerLetters
    /\ cleaned = <<>>

----------------------------------------------------------------------------
(* The URL run: clean_text applied to x + ' ' + u + ' ' + y, where u is a  *)
(* whitespace-free word that starts with 'http' in some letter case and    *)
(* has at least one more character, and to x + ' ' + y.                    *)

HttpPrefixes == {<<"h", "t", "t", "p">>, <<"H", "t", "t", "p">>}

InitUrl ==
    /\ \E kx \in 0..MaxPart, ky \in 0..MaxPart, kt \in 1..MaxTail :
          /\ kx + ky <= MaxPart
          /\ \E x \in [1..kx -> Chars], y \in [1..ky -> Chars],
                p \in HttpPrefixes, t \in [1..kt -> Chars \ Whitespace] :
                /\ url_parts = [x |-> x, u |-> p \o t, y |-> y]
                /\ text = x \o <<" ">> \o p \o t \o <<" ">> \o y
    /\ cleaned = NoText
    /\ recleaned = NoText
    /\ cleaned_plain = NoText
    /\ cleanpc = "url_input"
    /\ InitService
    /\ InitAppIdle
    /\ InitFormIdle
    /\ InitSessionIdle
    /\ InitChartsIdle

CleanWithUrl ==
    /\ cleanpc = "url_input"
    /\ cleaned' = clean_text(text)
    /\ cleanpc' = "url_cleaned"
    /\ UNCHANGED <<text, recleaned, urlVars, serviceVars, sessionVars,
                   chartVars, appVars, formVars>>

CleanWithoutUrl ==
    /\ cleanpc = "url_cleaned"
    /\ cleaned_plain' = clean_text(url_parts.x \o <<" ">> \o url_parts.y)
    /\ cleanpc' = "url_done"
    /\ UNCHANGED <<text, cleaned, recleaned, url_parts, serviceVars,
                   sessionVars, chartVars, appVars, formVars>>

NextUrl == CleanWithUrl \/ CleanWithoutUrl

SpecUrl == InitUrl /\ [][NextUrl]_vars

\* C14: URL removal acts after lowercasing and deletes the whole word: for
\* strings x, y and a whitespace-free word u that starts with 'http' in any
\* letter case and has at least one more character,
\* clean(x + ' ' + u + ' ' + y) = clean(x + ' ' + y).
C14_UrlWordIsDeleted ==
    cleanpc = "url_done" => cleaned = cleaned_plain

\* a capitalised URL with a letter tail between two words, which stay apart
C14_Witness ==
    /\ cleanpc = "url_done"
    /\ url_parts.u[1] = "H"
    /\ url_parts.u[Len(url_parts.u)] \in LowerLetters
    /\ url_parts.x # <<>> /\ url_parts.y # <<>>
    /\ Len(cleaned) = 3
    /\ cleaned[2] = " "

----------------------------------------------------------------------------
(* The service: the module body of main.py runs once, then requests are    *)
(* handled one at a time (the handlers are coroutines that never await):   *)
(* a handler runs on the request received, then the response is sent.      *)

\* request texts: blank, a non-letter, a vocabulary word, the word twice in
\* mixed case, a URL, a word outside the vocabulary
SampleEmails ==
    { <<" ", "\n">>,
      <<"1">>,
      <<"t">>,
      <<"T", " ", "t">>,
      <<"h", "t", "t", "p", "t">>,
      <<"a">> }

Init ==
    /\ text = <<>>
    /\ cleaned = NoText
    /\ recleaned = NoText
    /\ cleanpc = "input"
    /\ InitUrlIdle
    /\ InitService
    /\ InitAppIdle
    /\ InitFormIdle
    /\ InitSessionIdle
    /\ InitChartsIdle

\* try: spam_detector = SpamDetector()  except Exception: spam_detector = None
Startup ==
    /\ spam_detector = NotStarted
    /\ \/ \E m \in Artifacts : spam_detector' = SpamDetector(m)
       \/ spam_detector' = None
    /\ UNCHANGED <<request, response, predict_log, calls, cleanVars, appVars,
                   formVars, sessionVars, chartVars>>

Handle(req, outcome) ==
    /\ spam_detector # NotStarted
    /\ request = NoRequest
    /\ request' = req
    /\ response' = outcome.response
    /\ predict_log' = outcome.calls
    /\ UNCHANGED <<spam_detector, calls, cleanVars, appVars, formVars,
                   sessionVars, chartVars>>

\* a request body that fails the pydantic model (EmailInput.text has
\* min_length=1, BatchEmailInput.emails has min_items=1) never reaches the handler
ValidationError == [status_code |-> 422, detail |-> "validation error"]

root == Handle([endpoint |-> "/"], root_outcome)

health_check ==
    Handle([endpoint |-> "/health"], health_check_outcome(spam_detector))

get_model_info ==
    Handle([endpoint |-> "/model-info"], get_model_info_outcome(spam_detector))

predict_email ==
    \E email_text \in SampleEmails \cup {<<>>}, raises \in BOOLEAN :
        Handle([endpoint |-> "/predict", text |-> email_text,
                raises |-> raises],
               IF email_text = <<>>
               THEN Outcome(ValidationError, <<>>)
               ELSE predict_email_outcome(spam_detector, email_text, raises))

predict_batch ==
    \E n \in 0..MaxBatch :
        \E emails \in [1..n -> SampleEmails], raises \in [1..n -> BOOLEAN] :
            Handle([endpoint |-> "/predict-batch", emails |-> emails,
                    raises |-> raises],
                   IF n = 0
                   THEN Outcome(ValidationError, <<>>)
                   ELSE predict_batch_outcome(spam_detector, emails, raises))

\* the response is sent and the service waits for the next request
SendResponse ==
    /\ request # NoRequest
    /\ request' = NoRequest
    /\ response' = NoResponse
    /\ predict_log' = <<>>
    /\ UNCHANGED <<spam_detector, calls, cleanVars, appVars, formVars,
                   sessionVars, chartVars>>

Next ==
    \/ Startup
    \/ SendResponse
    \/ root
    \/ health_check
    \/ get_model_info
    \/ predict_email
    \/ predict_batch

Spec == Init /\ [][Next]_vars

----------------------------------------------------------------------------
(* The concurrent run: several callers inside SpamDetector.predict on the  *)
(* one shared detector, one statement of predict at a time, interleaved in *)
(* any order.  The intermediate values are locals of each call.            *)

ConcurrentEmails == {<<"1">>, <<"t">>, <<"T", " ", "t">>}

\* the cleaned text of whichever call cleaned last (an attribute of self)
cleaned_text_shared(cs, c) ==
    IF \E d \in Callers : d # c /\ cs[d].pc = "cleaned"
    THEN cs[CHOOSE d \in Callers : d # c /\ cs[d].pc = "cleaned"].cleaned_text
    ELSE cs[c].cleaned_text

\* transform([cleaned_text]) reads the local cleaned_text of its own call
cleaned_text_read(cs, c) == cs[c].cleaned_text

\* the vector of whichever call vectorized last (an attribute of self)
vectorized_text_shared(cs, c) ==
    IF \E d \in Callers : d # c /\ cs[d].pc = "vectorized"
    THEN cs[CHOOSE d \in Callers : d # c /\ cs[d].pc = "vectorized"]
             .vectorized_text
    ELSE cs[c].vectorized_text

\* model.predict and model.decision_function read the local vectorized_text
vectorized_text_read(cs, c) == cs[c].vectorized_text

ConcurrentStep(c, from, call) ==
    /\ spam_detector.state = "Loaded"
    /\ calls[c].pc = from
    /\ calls' = [calls EXCEPT ![c] = call]
    /\ UNCHANGED <<spam_detector, request, response, predict_log, cleanVars,
                   appVars, formVars, sessionVars, chartVars>>

\* def predict(self, email_text)
CallPredict(c) ==
    \E email_text \in ConcurrentEmails :
        ConcurrentStep(c, "idle",
            [IdleCall EXCEPT !.pc = "called", !.email_text = email_text])

\* cleaned_text = self.clean_text(email_text)
StepClean(c) ==
    ConcurrentStep(c, "called",
        [calls[c] EXCEPT !.pc = "cleaned",
                         !.cleaned_text = clean_text(calls[c].email_text)])

\* vectorized_text = self.vectorizer.transform([cleaned_text])
StepTransform(c) ==
    ConcurrentStep(c, "cleaned",
        [calls[c] EXCEPT !.pc = "vectorized",
             !.vectorized_text = transform(cleaned_text_read(calls, c))])

\* prediction = self.model.predict(vectorized_text)[0]
StepClassify(c) ==
    ConcurrentStep(c, "vectorized",
        [calls[c] EXCEPT !.pc = "classified",
             !.prediction = model_predict(spam_detector.model,
                                          vectorized_text_read(calls, c))])

\* confidence_score = self.model.decision_function(vectorized_text)[0]
StepScore(c) ==
    ConcurrentStep(c, "classified",
        [calls[c] EXCEPT !.pc = "scored",
             !.confidence_score = decision_function(spam_detector.model,
                                      vectorized_text_read(calls, c))])

\* result = {...}; return result
StepResult(c) ==
    LET score == calls[c].confidence_score
        normalized == normalized_confidence(score)
    IN  ConcurrentStep(c, "scored",
            [calls[c] EXCEPT !.pc = "done",
                 !.result =
                     [prediction |-> prediction_name(calls[c].prediction),
                      label |-> calls[c].prediction,
                      confidence |-> normalized,
                      confidence_percentage |->
                          confidence_percentage(score, normalized),
                      raw_score |-> raw_score_of(score)]])

\* the caller has taken the result and may call again
CallReturns(c) == ConcurrentStep(c, "done", IdleCall)

NextConcurrent ==
    \/ Startup
    \/ \E c \in Callers :
          \/ CallPredict(c)
          \/ StepClean(c)
          \/ StepTransform(c)
          \/ StepClassify(c)
          \/ StepScore(c)
          \/ StepResult(c)
          \/ CallReturns(c)

SpecConcurrent == Init /\ [][NextConcurrent]_vars

\* C12: for a fixed loaded model and vectorizer, two calls of predict with
\* the same text return results equal in all five fields, whatever other
\* calls ran in between.
C12_SameTextSameResult ==
    \A c, d \in Callers :
        (/\ calls[c].pc = "done"
         /\ calls[d].pc = "done"
         /\ calls[c].email_text = calls[d].email_text) =>
            calls[c].result = calls[d].result

\* two finished calls of the same text, of two words, classified as spam
C12_Witness ==
    /\ calls[1].pc = "done"
    /\ calls[2].pc = "done"
    /\ calls[1].email_text = <<"T", " ", "t">>
    /\ calls[2].email_text = calls[1].email_text
    /\ calls[1].result.prediction = "Spam"

\* C13: under any interleaving of concurrent predict calls on the one
\* shared detector, the loaded vectorizer and classifier are never modified
\* and each call returns the result it would return when run alone.
C13_CallsDoNotInterfere ==
    [][/\ spam_detector.state = "Loaded" => spam_detector' = spam_detector
       /\ \A c \in Callers :
              calls'[c].pc = "done" =>
                  calls'[c].result =
                      predict(spam_detector'.model, calls'[c].email_text)]_vars

\* a call finishes as spam while a call of another text is half way
C13_Witness ==
    /\ calls[1].pc = "done"
    /\ calls[1].result.prediction = "Spam"
    /\ calls[2].pc = "vectorized"
    /\ calls[2].email_text # calls[1].email_text

----------------------------------------------------------------------------
(* Properties of the results of predict *)

\* the request handled is a /predict-batch that reached the handler of a
\* loaded detector
BatchHandled ==
    /\ request.endpoint = "/predict-batch"
    /\ request.emails # <<>>
    /\ spam_detector.state = "Loaded"

BatchReturned == BatchHandled /\ response.status_code = 200

\* the results of predict held by the response: the body of a /predict
\* response, the entries of a /predict-batch response that are predictions
PredictResults ==
    IF request.endpoint = "/predict" /\ response.status_code = 200
    THEN {response.body}
    ELSE IF BatchReturned
    THEN {response.body.results[i] : i \in
             {j \in 1..Len(response.body.results) :
                 "prediction" \in DOMAIN response.body.results[j]}}
    ELSE {}

\* C3: for every raw_score, however large and of either sign, the confidence
\* of the result of predict lies in 0..1 (0..ConfDen in units of 1/ConfDen).
C3_ConfidenceInUnitInterval ==
    \A r \in PredictResults : 0 <= r.confidence /\ r.confidence <= ConfDen

\* a result whose raw_score is negative and beyond the saturation score
C3_Witness ==
    \E r \in PredictResults : r.raw_score < 0 - ConfDen

\* C4: confidence = min(1, |raw_score| / 3): exactly 1 when |raw_score| >= 3,
\* |raw_score| / 3 when |raw_score| < 3.  (raw_score / ScoreDen against
\* SatScore, confidence / ConfDen against |raw_score| / ScoreDen / SatScore.)
C4_ConfidenceIsClampedScore ==
    \A r \in PredictResults :
        /\ Abs(r.raw_score) >= SatScore * ScoreDen => r.confidence = ConfDen
        /\ Abs(r.raw_score) < SatScore * ScoreDen =>
               r.confidence * SatScore * ScoreDen = Abs(r.raw_score) * ConfDen

\* one batch response holds a saturated result and an unsaturated one
C4_Witness ==
    /\ \E r \in PredictResults : Abs(r.raw_score) > SatScore * ScoreDen
    /\ \E r \in PredictResults :
           0 < Abs(r.raw_score) /\ Abs(r.raw_score) < SatScore * ScoreDen

\* C5: confidence_percentage = confidence * 100, and so lies in 0..100.
C5_PercentageIsConfidenceTimes100 ==
    \A r \in PredictResults :
        /\ r.confidence_percentage = r.confidence * 100
        /\ 0 <= r.confidence_percentage
        /\ r.confidence_percentage <= 100 * ConfDen

\* a saturated result, of a raw_score beyond the saturation score
C5_Witness ==
    \E r \in PredictResults :
        r.raw_score > SatScore * ScoreDen /\ r.confidence_percentage > 0

\* C6: label is 0 or 1, and label = 1 exactly when prediction = "Spam"
\* (otherwise prediction = "Ham").
C6_LabelMatchesPrediction ==
    \A r \in PredictResults :
        /\ r.label \in {0, 1}
        /\ r.prediction \in {"Spam", "Ham"}
        /\ (r.label = 1) <=> (r.prediction = "Spam")

\* one batch response holds a Spam result and a Ham result
C6_Witness ==
    /\ \E r \in PredictResults : r.prediction = "Spam"
    /\ \E r \in PredictResults : r.prediction = "Ham"

----------------------------------------------------------------------------
(* Properties of the service *)

DetectorEndpoints == {"/health", "/predict", "/predict-batch", "/model-info"}

\* C8 as stated: after a failed load the service never answers a request.
C8_LoadFailureIsFatal ==
    spam_detector = None => response = NoResponse

\* C8, amended: a failed load is not fatal.  The service keeps running with
\* spam_detector = None and answers requests; in that state no handler calls
\* predict and /health, /predict, /predict-batch and /model-info answer every
\* request that passes validation by raising HTTPException 503.
C8_LoadFailureAnswers503 ==
    spam_detector = None =>
        /\ predict_log = <<>>
        /\ (request.endpoint \in DetectorEndpoints /\ response # ValidationError)
               => response.status_code = 503

\* a /health request answered after a failed load
C8_Witness ==
    /\ spam_detector = None
    /\ request.endpoint = "/health"
    /\ response.status_code = 503

\* C30: in every batch response, total is the number of input emails,
\* spam_count the number of results whose prediction is Spam and ham_count
\* the number of results whose prediction is Ham, also when the batch
\* holds empty emails.
C30_BatchCountsMatchResults ==
    (request.endpoint = "/predict-batch" /\ response.status_code = 200) =>
        LET body == response.body
            WithPrediction(p) ==
                {i \in 1..Len(body.results) :
                    /\ "prediction" \in DOMAIN body.results[i]
                    /\ body.results[i].prediction = p}
        IN  /\ body.total = Len(request.emails)
            /\ body.spam_count = Cardinality(WithPrediction("Spam"))
            /\ body.ham_count = Cardinality(WithPrediction("Ham"))

\* @app.exception_handler(HTTPException): the body made of a raised
\* HTTPException
http_exception_handler(exc) ==
    [error |-> exc.detail, status_code |-> exc.status_code]

\* C27 as stated: with a detector that failed to initialise, every request
\* to /predict, /predict-batch, /model-info and /health is answered 503 and
\* no handler calls predict.
C27_EveryRequestAnswered503 ==
    (spam_detector = None /\ request.endpoint \in DetectorEndpoints) =>
        /\ response.status_code = 503
        /\ predict_log = <<>>

\* C27, amended: with a detector that failed to initialise, a request to
\* /predict, /predict-batch, /model-info or /health never reaches predict
\* and is never answered with a result: a body that fails validation is
\* answered 422 before the handler runs, and every other request is
\* answered by an HTTPException 503 whose handler body carries 503 and the
\* 'not loaded' / 'not initialized' detail.
C27_FailedDetectorGatesEndpoints ==
    (spam_detector = None /\ request.endpoint \in DetectorEndpoints) =>
        /\ predict_log = <<>>
        /\ response.status_code # 200
        /\ \/ /\ response = ValidationError
              /\ \/ request.endpoint = "/predict" /\ request.text = <<>>
                 \/ request.endpoint = "/predict-batch"
                    /\ request.emails = <<>>
           \/ /\ http_exception_handler(response).status_code = 503
              /\ http_exception_handler(response).error \in
                     {"Model not loaded", "Model not initialized"}

\* a batch of two emails refused after a failed load
C27_Witness ==
    /\ spam_detector = None
    /\ request.endpoint = "/predict-batch"
    /\ Len(request.emails) = 2
    /\ response.status_code = 503

\* C9: in a batch, a failure on one email (empty text, or predict raising on
\* it) affects only that email's entry: the response is returned and every
\* other email has its prediction.
C9_BatchIsolatesFailures ==
    BatchHandled =>
        /\ response.status_code = 200
        /\ \A i \in 1..Len(request.emails) :
               (~IsBlank(request.emails[i]) /\ ~request.raises[i]) =>
                   response.body.results[i] =
                       [index |-> i - 1] @@
                           predict(spam_detector.model, request.emails[i])

\* C10 as stated, on the batches in which predict never raises: N results,
\* the i-th with index i and the outcome of predict on the i-th email.
C10_BatchIsPredictPerEmail ==
    (BatchHandled /\ RaisingCalls(request.emails, request.raises) = {}) =>
        /\ response.status_code = 200
        /\ Len(response.body.results) = Len(request.emails)
        /\ \A i \in 1..Len(request.emails) :
               response.body.results[i] =
                   [index |-> i - 1] @@
                       predict(spam_detector.model, request.emails[i])

\* C10, amended: a batch of N emails raises HTTPException 500 and returns no
\* results when predict raises on one of its emails; otherwise it returns
\* exactly N results in input order, the i-th with index i (from 0): for an
\* email that is blank after strip() the entry {index, error: "Empty email
\* text"}, for any other email the five fields predict returns for it.
C10_BatchResultsInOrder ==
    BatchHandled =>
        IF RaisingCalls(request.emails, request.raises) # {}
        THEN response.status_code = 500
        ELSE /\ response.status_code = 200
             /\ Len(response.body.results) = Len(request.emails)
             /\ \A i \in 1..Len(request.emails) :
                    response.body.results[i] =
                        IF IsBlank(request.emails[i])
                        THEN [index |-> i - 1, error |-> "Empty email text"]
                        ELSE [index |-> i - 1] @@
                                 predict(spam_detector.model, request.emails[i])

\* a returned batch of a blank email followed by one that is classified
C10_Witness ==
    /\ BatchReturned
    /\ Len(request.emails) >= 2
    /\ IsBlank(request.emails[1])
    /\ ~IsBlank(request.emails[2])
    /\ response.body.results[2].index = 1

----------------------------------------------------------------------------
(* Properties of a single /predict request *)

\* the request handled is a /predict that reached the handler of a loaded
\* detector
PredictHandled ==
    /\ request.endpoint = "/predict"
    /\ request.text # <<>>
    /\ spam_detector.state = "Loaded"

ResultFields ==
    {"prediction", "label", "confidence", "confidence_percentage", "raw_score"}

\* C11: when vectorization or classification raises during predict, the
\* caller gets an error that carries the cause and no result; predict is not
\* called again and the error is never turned into a success response.
C11_PredictFailureIsRaised ==
    /\ (PredictHandled /\ ~IsBlank(request.text) /\ request.raises) =>
           /\ response =
                  HTTPException(500, "Prediction failed: predict raised")
           /\ predict_log = <<request.text>>
    /\ (BatchHandled /\ RaisingCalls(request.emails, request.raises) # {}) =>
           /\ response =
                  HTTPException(500, "Batch prediction failed: predict raised")
           /\ Len(predict_log) <= Len(request.emails)

\* a /predict request on which predict raised, answered
C11_Witness ==
    /\ PredictHandled
    /\ ~IsBlank(request.text)
    /\ request.raises
    /\ response.status_code = 500

\* C16: a raw text that is not empty but normalizes to the empty string
\* still gets a complete result of five fields from predict, not an error.
C16_EmptyCleanedTextIsClassified ==
    (/\ PredictHandled
     /\ ~IsBlank(request.text)
     /\ clean_text(request.text) = <<>>
     /\ ~request.raises) =>
        /\ response.status_code = 200
        /\ DOMAIN response.body = ResultFields
        /\ response.body.raw_score = spam_detector.model.intercept
        /\ predict_log = <<request.text>>

\* a text of one digit and a URL-only text, each classified
C16_Witness ==
    /\ PredictHandled
    /\ request.text \in {<<"1">>, <<"h", "t", "t", "p", "t">>}
    /\ response.status_code = 200
    /\ response.body.prediction = "Spam"

\* C17: a /predict request whose text is empty after trimming whitespace is
\* rejected with status 400 and detail 'Email text cannot be empty', and
\* predict is not called.  (Stated on the texts that pass the min_length=1
\* validation of EmailInput: whitespace only, at least one character.)
C17_BlankTextIsRejectedWith400 ==
    (PredictHandled /\ IsBlank(request.text)) =>
        /\ response = HTTPException(400, "Email text cannot be empty")
        /\ predict_log = <<>>

----------------------------------------------------------------------------
(* JavaScript values of the frontend.  A string is its sequence of         *)
(* characters; a number is the numeral the model holds for it (a label as  *)
(* it is, a score in units of 1 / ScoreDen, a confidence or a percentage   *)
(* in units of 1 / ConfDen); an object is a function from its keys.        *)

JsNull == [type |-> "null", number |-> 0, string |-> <<>>]
JsNumber(n) == [type |-> "number", number |-> n, string |-> <<>>]
JsString(s) == [type |-> "string", number |-> 0, string |-> s]
JsBoolean(b) ==
    [type |-> "boolean", number |-> IF b THEN 1 ELSE 0, string |-> <<>>]
JsArray(items) == [type |-> "array", items |-> items]
JsObject(fields) == [type |-> "object", fields |-> fields]

prediction_key == <<"p", "r", "e", "d", "i", "c", "t", "i", "o", "n">>
label_key == <<"l", "a", "b", "e", "l">>
confidence_key == <<"c", "o", "n", "f", "i", "d", "e", "n", "c", "e">>
confidence_percentage_key == <<"c", "o", "n", "f", "i", "d", "e", "n", "c", "e", "_", "p", "e", "r", "c", "e", "n", "t", "a", "g", "e">>
raw_score_key == <<"r", "a", "w", "_", "s", "c", "o", "r", "e">>
timestamp_key == <<"t", "i", "m", "e", "s", "t", "a", "m", "p">>
text_key == <<"t", "e", "x", "t">>

\* the keys of a prediction record, in the order the record is built:
\* the response body of /predict, then timestamp and text
KeyOrder ==
    <<prediction_key, label_key, confidence_key, confidence_percentage_key,
      raw_score_key, timestamp_key, text_key>>

\* response.data of a /predict answered 200 with the result r
response_data(r) ==
    (prediction_key :> JsString(IF r.prediction = "Spam"
                                THEN <<"S", "p", "a", "m">>
                                ELSE <<"H", "a", "m">>))
    @@ (label_key :> JsNumber(r.label))
    @@ (confidence_key :> JsNumber(r.confidence))
    @@ (confidence_percentage_key :> JsNumber(r.confidence_percentage))
    @@ (raw_score_key :> JsNumber(r.raw_score))

\* new Date().toISOString(): the clock reads one instant in this model
Now == <<"2", "0", "2", "5", "-", "1", "0", "-", "0", "1">>

\* { ...response.data, timestamp: new Date().toISOString(), text }
prediction_object(r, email_text) ==
    JsObject((timestamp_key :> JsString(Now))
             @@ (text_key :> JsString(email_text))
             @@ response_data(r))

----------------------------------------------------------------------------
(* JSON.stringify(data, null, 2) and JSON.parse, on the characters of the  *)
(* JSON text.  A number is written in decimal digits with its sign; the    *)
(* grammar read back is that of the texts stringify writes (arrays,        *)
(* objects, strings with the escapes of quote, backslash and newline,      *)
(* integers, true, false, null, and whitespace between tokens).            *)

IndentWidth == 2

Digits == <<"0", "1", "2", "3", "4", "5", "6", "7", "8", "9">>
DigitSet == {Digits[i] : i \in 1..Len(Digits)}
DigitValue(c) == CHOOSE d \in 0..9 : Digits[d + 1] = c

Spaces(n) == [i \in 1..n |-> " "]

RECURSIVE FormatNat(_)
FormatNat(n) ==
    IF n < 10 THEN <<Digits[n + 1]>>
    ELSE FormatNat(n \div 10) \o <<Digits[(n % 10) + 1]>>

FormatNumber(n) ==
    IF n < 0 THEN <<"-">> \o FormatNat(0 - n) ELSE FormatNat(n)

\* a string written between quotes as it is
Escape_nothing(s) == s

\* the characters of s with quote, backslash and newline escaped
RECURSIVE Escape(_)
Escape(s) ==
    IF s = <<>> THEN <<>>
    ELSE (IF Head(s) = "\"" THEN <<"\\", "\"">>
          ELSE IF Head(s) = "\\" THEN <<"\\", "\\">>
          ELSE IF Head(s) = "\n" THEN <<"\\", "n">>
          ELSE <<Head(s)>>) \o Escape(Tail(s))

QuoteString(s) == <<"\"">> \o Escape(s) \o <<"\"">>

\* the lines joined by ',' and a line break
RECURSIVE JoinLines(_)
JoinLines(lines) ==
    IF Len(lines) = 1 THEN lines[1]
    ELSE lines[1] \o <<",", "\n">> \o JoinLines(Tail(lines))

\* the text of the value v whose own line is indented by depth levels
RECURSIVE stringify(_, _)
stringify(v, depth) ==
    LET inner == Spaces(IndentWidth * (depth + 1))
        close == <<"\n">> \o Spaces(IndentWidth * depth)
    IN  CASE v.type = "array" ->
               IF v.items = <<>> THEN <<"[", "]">>
               ELSE <<"[", "\n">>
                    \o JoinLines([i \in 1..Len(v.items) |->
                           inner \o stringify(v.items[i], depth + 1)])
                    \o close \o <<"]">>
          [] v.type = "object" ->
               LET keys == SelectSeq(KeyOrder,
                                     LAMBDA k : k \in DOMAIN v.fields)
               IN  IF keys = <<>> THEN <<"{", "}">>
                   ELSE <<"{", "\n">>
                        \o JoinLines([i \in 1..Len(keys) |->
                               inner \o QuoteString(keys[i]) \o <<":", " ">>
                               \o stringify(v.fields[keys[i]], depth + 1)])
                        \o close \o <<"}">>
          [] v.type = "string" -> QuoteString(v.string)
          [] v.type = "number" -> FormatNumber(v.number)
          [] v.type = "boolean" ->
               IF v.number = 1 THEN <<"t", "r", "u", "e">>
               ELSE <<"f", "a", "l", "s", "e">>
          [] OTHER -> <<"n", "u", "l", "l">>

\* JSON.stringify(data, null, 2)
JSON_stringify(data) == stringify(data, 0)

JsonWhitespace == {" ", "\n"}

\* what a parsing step returns: the value read and the position after it
Parsed(v, next) == [ok |-> TRUE, value |-> v, next |-> next]
SyntaxError == [ok |-> FALSE, value |-> JsNull, next |-> 0]

\* the character at position i, "" past the end
At(s, i) == IF i <= Len(s) THEN s[i] ELSE ""

\* the first position from i on that holds no character of the set
SkipAll(s, i, set) ==
    CHOOSE j \in i..(Len(s) + 1) :
        /\ \A k \in i..(j - 1) : s[k] \in set
        /\ At(s, j) \notin set

Matches(s, i, word) ==
    /\ i + Len(word) - 1 <= Len(s)
    /\ SubSeq(s, i, i + Len(word) - 1) = word

\* the string whose opening quote precedes position i
RECURSIVE ScanString(_, _, _)
ScanString(s, i, acc) ==
    IF i > Len(s) \/ s[i] = "\n" THEN SyntaxError
    ELSE IF s[i] = "\"" THEN Parsed(JsString(acc), i + 1)
    ELSE IF s[i] = "\\"
         THEN IF At(s, i + 1) \in {"\"", "\\"}
              THEN ScanString(s, i + 2, Append(acc, s[i + 1]))
              ELSE IF At(s, i + 1) = "n"
              THEN ScanString(s, i + 2, Append(acc, "\n"))
              ELSE SyntaxError
    ELSE ScanString(s, i + 1, Append(acc, s[i]))

RECURSIVE ParseNat(_)
ParseNat(ds) ==
    IF ds = <<>> THEN 0
    ELSE 10 * ParseNat(SubSeq(ds, 1, Len(ds) - 1)) + DigitValue(ds[Len(ds)])

\* the integer at position i: a sign, then 0 or digits not led by 0
ScanNumber(s, i) ==
    LET start == IF At(s, i) = "-" THEN i + 1 ELSE i
        end == IF At(s, start) = "0" THEN start + 1
               ELSE SkipAll(s, start, DigitSet)
        n == ParseNat(SubSeq(s, start, end - 1))
    IN  IF end = start THEN SyntaxError
        ELSE Parsed(JsNumber(IF start > i THEN 0 - n ELSE n), end)

RECURSIVE ParseValue(_, _)
RECURSIVE ParseElements(_, _, _)
RECURSIVE ParseMembers(_, _, _)

\* the value that starts at or after position i
ParseValue(s, i) ==
    LET j == SkipAll(s, i, JsonWhitespace)
        c == At(s, j)
        k == SkipAll(s, j + 1, JsonWhitespace)
    IN  CASE c = "[" ->
               IF At(s, k) = "]" THEN Parsed(JsArray(<<>>), k + 1)
               ELSE ParseElements(s, k, <<>>)
          [] c = "{" ->
               IF At(s, k) = "}" THEN Parsed(JsObject(<<>>), k + 1)
               ELSE ParseMembers(s, k, <<>>)
          [] c = "\"" -> ScanString(s, j + 1, <<>>)
          [] c = "-" \/ c \in DigitSet -> ScanNumber(s, j)
          [] c = "t" /\ Matches(s, j, <<"t", "r", "u", "e">>) ->
               Parsed(JsBoolean(TRUE), j + 4)
          [] c = "f" /\ Matches(s, j, <<"f", "a", "l", "s", "e">>) ->
               Parsed(JsBoolean(FALSE), j + 5)
          [] c = "n" /\ Matches(s, j, <<"n", "u", "l", "l">>) ->
               Parsed(JsNull, j + 4)
          [] OTHER -> SyntaxError

\* the elements of an array from position i on, after those of acc
ParseElements(s, i, acc) ==
    LET element == ParseValue(s, i)
        j == SkipAll(s, element.next, JsonWhitespace)
    IN  IF ~element.ok THEN SyntaxError
        ELSE IF At(s, j) = ","
        THEN ParseElements(s, j + 1, Append(acc, element.value))
        ELSE IF At(s, j) = "]"
        THEN Parsed(JsArray(Append(acc, element.value)), j + 1)
        ELSE SyntaxError

\* the members of an object from position i on, after those of fields; a
\* key met again takes the later value
ParseMembers(s, i, fields) ==
    LET j == SkipAll(s, i, JsonWhitespace)
        key == ScanString(s, j + 1, <<>>)
        colon == SkipAll(s, key.next, JsonWhitespace)
        member == ParseValue(s, colon + 1)
        k == SkipAll(s, member.next, JsonWhitespace)
        fields2 == (key.value.string :> member.value) @@ fields
    IN  IF At(s, j) # "\"" \/ ~key.ok THEN SyntaxError
        ELSE IF At(s, colon) # ":" THEN SyntaxError
        ELSE IF ~member.ok THEN SyntaxError
        ELSE IF At(s, k) = "," THEN ParseMembers(s, k + 1, fields2)
        ELSE IF At(s, k) = "}" THEN Parsed(JsObject(fields2), k + 1)
        ELSE SyntaxError

\* JSON.parse(text): the one value of the text, or a SyntaxError
JSON_parse(s) ==
    LET r == ParseValue(s, 1)
    IN  IF r.ok /\ SkipAll(s, r.next, JsonWhitespace) = Len(s) + 1
        THEN r ELSE SyntaxError

----------------------------------------------------------------------------
(* App.js: the prediction history, saved to a JSON file and loaded from    *)
(* one.  The classifier component hands each classified email to           *)
(* addPrediction; the files offered to loadFromJSON are the file           *)
(* saveToJSON downloaded and files written by other means.                 *)

\* the artifacts the backend of this run has loaded: the term 't' weighs
\* for spam against a negative intercept
ServedModel ==
    [intercept |-> 0 - 1, coef |-> [w \in Vocabulary |-> MaxWeight]]

\* the emails classified in this run
AppEmails == {<<"T", " ", "t">>}

Alert(message) ==
    [message |-> message, detail |-> "", added |-> 0, total |-> 0]

\* String.prototype.endsWith
endsWith(s, suffix) ==
    /\ Len(s) >= Len(suffix)
    /\ SubSeq(s, Len(s) - Len(suffix) + 1, Len(s)) = suffix

\* `spam_predictions_${new Date().toISOString().slice(0,10)}.json`
SavedFileName ==
    <<"s", "p", "a", "m", "_", "p", "r", "e", "d", "i", "c", "t", "i",
      "o", "n", "s", "_", "2", "0", "2", "5", "-", "1", "0", "-", "0",
      "1", ".", "j", "s", "o", "n">>

\* files on the user's disk that this run's saveToJSON did not write: a
\* text file, a truncated JSON text, a single record outside an array, an
\* array whose second record lacks confidence_percentage, and an array of two
\* records written compactly by another tool, a ham of two lines before a
\* spam
notes_txt ==
    [name |-> <<"n", "o", "t", "e", "s", ".", "t", "x", "t">>,
     content |->
        <<"[", "]">>]

cut_json ==
    [name |-> <<"c", "u", "t", ".", "j", "s", "o", "n">>,
     content |->
        <<"[", "{">>]

one_json ==
    [name |-> <<"o", "n", "e", ".", "j", "s", "o", "n">>,
     content |->
        <<"{", "\"", "p", "r", "e", "d", "i", "c", "t", "i", "o", "n",
         "\"", ":", " ", "\"", "H", "a", "m", "\"", ",", " ", "\"", "c",
         "o", "n", "f", "i", "d", "e", "n", "c", "e", "_", "p", "e", "r",
         "c", "e", "n", "t", "a", "g", "e", "\"", ":", " ", "0", "}">>]

part_json ==
    [name |-> <<"p", "a", "r", "t", ".", "j", "s", "o", "n">>,
     content |->
        <<"[", "{", "\"", "p", "r", "e", "d", "i", "c", "t", "i", "o", "n",
         "\"", ":", "\"", "S", "p", "a", "m", "\"", ",", "\"", "c", "o",
         "n", "f", "i", "d", "e", "n", "c", "e", "_", "p", "e", "r", "c",
         "e", "n", "t", "a", "g", "e", "\"", ":", "9", "}", ",", "{", "\"",
         "p", "r", "e", "d", "i", "c", "t", "i", "o", "n", "\"", ":", "\"",
         "H", "a", "m", "\"", "}", "]">>]

week_json ==
    [name |-> <<"w", "e", "e", "k", ".", "j", "s", "o", "n">>,
     content |->
        <<"[", "{", "\"", "t", "e", "x", "t", "\"", ":", "\"", "a", "\\",
         "n", "1", "\"", ",", "\"", "l", "a", "b", "e", "l", "\"", ":",
         "0", ",", "\"", "p", "r", "e", "d", "i", "c", "t", "i", "o", "n",
         "\"", ":", "\"", "H", "a", "m", "\"", ",", "\"", "c", "o", "n",
         "f", "i", "d", "e", "n", "c", "e", "\"", ":", "1", ",", "\"",
         "c", "o", "n", "f", "i", "d", "e", "n", "c", "e", "_", "p", "e",
         "r", "c", "e", "n", "t", "a", "g", "e", "\"", ":", "1", "0", "0",
         ",", "\"", "r", "a", "w", "_", "s", "c", "o", "r", "e", "\"",
         ":", "-", "1", "}", ",", "\n", "{", "\"", "t", "e", "x", "t",
         "\"", ":", "\"", "t", "\"", ",", "\"", "l", "a", "b", "e", "l",
         "\"", ":", "1", ",", "\"", "p", "r", "e", "d", "i", "c", "t",
         "i", "o", "n", "\"", ":", "\"", "S", "p", "a", "m", "\"", ",",
         "\"", "c", "o", "n", "f", "i", "d", "e", "n", "c", "e", "\"",
         ":", "3", ",", "\"", "c", "o", "n", "f", "i", "d", "e", "n", "c",
         "e", "_", "p", "e", "r", "c", "e", "n", "t", "a", "g", "e", "\"",
         ":", "3", "0", "0", ",", "\"", "r", "a", "w", "_", "s", "c", "o",
         "r", "e", "\"", ":", "3", "}", "]">>]

SampleFiles == {notes_txt, cut_json, one_json, part_json, week_json}

InitApp ==
    /\ text = <<>>
    /\ cleaned = NoText
    /\ recleaned = NoText
    /\ cleanpc = "input"
    /\ InitUrlIdle
    /\ spam_detector = SpamDetector(ServedModel)
    /\ request = NoRequest
    /\ response = NoResponse
    /\ predict_log = <<>>
    /\ calls = [c \in Callers |-> IdleCall]
    /\ InitAppIdle
    /\ InitFormIdle
    /\ InitSessionIdle
    /\ InitChartsIdle

\* loadStatistics() up to its await: a GET /statistics request is sent
loadStatistics == stats_in_flight' = TRUE

\* setPredictionHistory(prev => [...prev, prediction]); loadStatistics()
addPrediction(prediction) ==
    /\ Len(predictionHistory) < MaxHistory
    /\ predictionHistory' = Append(predictionHistory, prediction)
    /\ loadStatistics
    /\ UNCHANGED <<downloads, saved_data, readers, alerted>>
    /\ UNCHANGED <<statistics, history_request, tabValue, page>>

\* the classifier component has classified an email: onPrediction(prediction)
onPrediction ==
    /\ \E email \in AppEmails :
          addPrediction(prediction_object(
              predict(spam_detector.model, email), email))
    /\ UNCHANGED <<cleanVars, serviceVars, chartVars, formVars>>

\* the save button: saveToJSON() with data = predictionHistory
saveToJSON ==
    LET data == predictionHistory
    IN  /\ IF Len(data) = 0
           THEN /\ alerted' = Alert("No predictions to save!")
                /\ UNCHANGED <<downloads, saved_data>>
           ELSE /\ downloads' = [name |-> SavedFileName,
                                 content |-> JSON_stringify(JsArray(data))]
                /\ saved_data' = data
                /\ UNCHANGED alerted
        /\ UNCHANGED <<predictionHistory, readers>>
        /\ UNCHANGED <<cleanVars, serviceVars, sessionVars, chartVars,
                       formVars>>

\* the change event of the file input: the user has chosen a file of the
\* disk or the file downloaded; its reader calls back later
loadFromJSON ==
    \E file \in SampleFiles \cup
                (IF downloads = NoFile THEN {} ELSE {downloads}) :
        /\ IF ~endsWith(file.name, <<".", "j", "s", "o", "n">>)
           THEN /\ alerted' = Alert("Please select a valid JSON file")
                /\ UNCHANGED readers
           ELSE /\ Len(readers) < MaxReads
                /\ readers' = Append(readers, file)
                /\ UNCHANGED alerted
        /\ UNCHANGED <<predictionHistory, downloads, saved_data>>
        /\ UNCHANGED <<cleanVars, serviceVars, sessionVars, chartVars,
                       formVars>>

\* item.hasOwnProperty('prediction') alone
HasPrediction(item) ==
    /\ item.type = "object"
    /\ prediction_key \in DOMAIN item.fields

\* item.hasOwnProperty('prediction') &&
\* item.hasOwnProperty('confidence_percentage')
HasRequiredFields(item) ==
    /\ item.type = "object"
    /\ prediction_key \in DOMAIN item.fields
    /\ confidence_percentage_key \in DOMAIN item.fields

\* the message of the error reader.onload throws on the text, "" if none:
\* every() stops at the first element that fails, and hasOwnProperty of
\* null is a TypeError
load_error(content) ==
    LET parsed == JSON_parse(content)
        items == parsed.value.items
        failing == {i \in 1..Len(items) : ~HasRequiredFields(items[i])}
        first == CHOOSE i \in failing : \A j \in failing : i <= j
    IN  IF ~parsed.ok THEN "SyntaxError"
        ELSE IF parsed.value.type # "array"
        THEN "Invalid format: Expected array of predictions"
        ELSE IF failing = {} THEN ""
        ELSE IF items[first].type = "null" THEN "TypeError"
        ELSE "Invalid data structure in JSON file"

\* the loaded file replacing the history
combined_replaces(prev, data) == data

\* [...prev, ...data]
combined(prev, data) == prev \o data

\* a sequence without its i-th element
Without(s, i) == SubSeq(s, 1, i - 1) \o SubSeq(s, i + 1, Len(s))

\* reader.onload of one of the files being read
onload ==
    \E i \in 1..Len(readers) :
        LET content == readers[i].content
            thrown == load_error(content)
            data == JSON_parse(content).value.items
        IN  /\ IF thrown = ""
               THEN /\ Len(predictionHistory) + Len(data) <= MaxHistory
                    /\ predictionHistory' = combined(predictionHistory, data)
                    /\ alerted' =
                           [message |-> "Successfully added predictions!",
                            detail |-> "",
                            added |-> Len(data),
                            total |->
                                Len(combined(predictionHistory, data))]
               ELSE /\ alerted' = [message |-> "Failed to load JSON file.",
                                   detail |-> thrown,
                                   added |-> 0, total |-> 0]
                    /\ UNCHANGED predictionHistory
            /\ readers' = Without(readers, i)
            /\ UNCHANGED <<downloads, saved_data>>
            /\ UNCHANGED <<cleanVars, serviceVars, sessionVars, chartVars,
                           formVars>>

\* reader.onerror of one of the files being read
onerror ==
    \E i \in 1..Len(readers) :
        /\ alerted' = Alert("Failed to read file. Please try again.")
        /\ readers' = Without(readers, i)
        /\ UNCHANGED <<predictionHistory, downloads, saved_data>>
        /\ UNCHANGED <<cleanVars, serviceVars, sessionVars, chartVars,
                       formVars>>

\* handleClearHistory emptying the history before DELETE /predictions is
\* answered: a failed request leaves the history and the statistics empty
handleClearHistory_optimistic ==
    /\ \E confirmed \in BOOLEAN, deleted \in BOOLEAN :
          IF ~confirmed
          THEN /\ alerted' = [message |->
                                  "Are you sure? This action cannot be undone!",
                              detail |-> "declined",
                              added |-> 0, total |-> 0]
               /\ UNCHANGED <<predictionHistory, statistics>>
          ELSE /\ predictionHistory' = <<>>
               /\ statistics' = NoStatistics
               /\ alerted' = IF deleted
                             THEN Alert("All predictions cleared successfully")
                             ELSE Alert("Failed to clear predictions")
    /\ UNCHANGED <<downloads, saved_data, readers>>
    /\ UNCHANGED <<stats_in_flight, history_request, tabValue, page>>
    /\ UNCHANGED <<cleanVars, serviceVars, chartVars, formVars>>

\* the last dialog was window.confirm, which the user declined
Declined(message) ==
    [message |-> message, detail |-> "declined", added |-> 0, total |-> 0]

\* the clear button: window.confirm is declined and nothing happens, or it
\* is accepted and the DELETE /predictions request succeeds or fails (the
\* handler changes nothing before its await and reads nothing after it)
handleClearHistory ==
    /\ \E confirmed \in BOOLEAN, deleted \in BOOLEAN :
          IF ~confirmed
          THEN /\ alerted' =
                     Declined("Are you sure? This action cannot be undone!")
               /\ UNCHANGED <<predictionHistory, statistics>>
          ELSE IF deleted
          THEN /\ predictionHistory' = <<>>
               /\ statistics' = NoStatistics
               /\ alerted' = Alert("All predictions cleared successfully")
          ELSE /\ alerted' = Alert("Failed to clear predictions")
               /\ UNCHANGED <<predictionHistory, statistics>>
    /\ UNCHANGED <<downloads, saved_data, readers>>
    /\ UNCHANGED <<stats_in_flight, history_request, tabValue, page>>
    /\ UNCHANGED <<cleanVars, serviceVars, chartVars, formVars>>

NextApp ==
    \/ onPrediction
    \/ saveToJSON
    \/ loadFromJSON
    \/ onload
    \/ onerror
    \/ handleClearHistory

SpecApp == InitApp /\ [][NextApp]_vars

\* C20: loading a valid JSON file of records D accumulates: the history
\* afterwards is the previous history followed by D in file order, no
\* existing record removed, changed or reordered.
C20_LoadAccumulates ==
    [][\A i \in 1..Len(readers) :
          (/\ readers' = Without(readers, i)
           /\ alerted'.message = "Successfully added predictions!"
           /\ load_error(readers[i].content) = "") =>
              predictionHistory' =
                  predictionHistory
                  \o JSON_parse(readers[i].content).value.items]_vars

\* a record was loaded behind the record that was there
C20_Witness ==
    /\ alerted.message = "Successfully added predictions!"
    /\ alerted.added = 1
    /\ alerted.total = 2
    /\ Len(predictionHistory) = 2

\* C18: the file saveToJSON wrote, loaded into an empty history, gives the
\* sequence of records that was saved, every field and its type unchanged.
C18_SaveLoadRoundTrip ==
    [][\A i \in 1..Len(readers) :
          (/\ readers' = Without(readers, i)
           /\ alerted'.message \in {"Successfully added predictions!",
                                   "Failed to load JSON file."}
           /\ downloads # NoFile
           /\ readers[i] = downloads
           /\ predictionHistory = <<>>) =>
              predictionHistory' = saved_data]_vars

\* a ham of two lines and a spam were saved, the history cleared, and the
\* file loaded
C18_Witness ==
    /\ alerted.message = "Successfully added predictions!"
    /\ alerted.added = 2
    /\ alerted.total = 2
    /\ predictionHistory = saved_data
    /\ downloads.content = JSON_stringify(JsArray(predictionHistory))
    /\ predictionHistory[1].fields[label_key] = JsNumber(0)
    /\ predictionHistory[1].fields[raw_score_key].number < 0
    /\ predictionHistory[1].fields[text_key].string[2] = "\n"
    /\ predictionHistory[2].fields[label_key] = JsNumber(1)

----------------------------------------------------------------------------
(* EmailClassifier.js: the classifier form.  A text reaches classifyEmail  *)
(* from the form (typed or loaded from an example, then submitted) or from *)
(* a dropped file once its reader has read it; classifyEmail runs up to    *)
(* its await, and the rest runs when the /predict request is answered.     *)
(* The drag highlight (dragActive) and the list of results shown under the *)
(* form are left out: no handler reads them.                               *)

MinLength == 10

\* String.prototype.trim
trim(s) == DropTrailingSpace(DropSpace(s))

\* a word of k letters
Word(k) == [i \in 1..k |-> "a"]

\* what the user types: nothing, a space, a word one letter short, that
\* word between spaces (long enough before it is trimmed), a word of the
\* least length
TypedTexts ==
    { <<>>,
      <<" ">>,
      Word(MinLength - 1),
      <<" ">> \o Word(MinLength - 1) \o <<" ">>,
      Word(MinLength) }

\* the example emails, all well above the least length
exampleEmails == {Word(MinLength + 1)}

\* the files dropped on the form: text files that are empty, too short
\* once trimmed, and long enough, and a file that is not text
DroppedFiles ==
    { [type |-> "text/plain", content |-> <<>>],
      [type |-> "text/plain",
       content |-> <<" ">> \o Word(MinLength - 1) \o <<"\n">>],
      [type |-> "text/plain", content |-> Word(MinLength)],
      [type |-> "image/png", content |-> Word(MinLength)] }

\* emailText.trim().length >= 10
isValidLength == Len(trim(emailText)) >= MinLength

\* the submit button: disabled={loading || !emailText.trim() || !isValidLength}
SubmitDisabled == loading \/ trim(emailText) = <<>> \/ ~isValidLength

\* the length test made on the text as it was given
TooShort_untrimmed(email) == Len(email) < MinLength

\* !text.trim() || text.trim().length < 10
TooShort(email) == trim(email) = <<>> \/ Len(trim(email)) < MinLength

InitForm ==
    /\ text = <<>>
    /\ cleaned = NoText
    /\ recleaned = NoText
    /\ cleanpc = "input"
    /\ InitUrlIdle
    /\ spam_detector = SpamDetector(ServedModel)
    /\ request = NoRequest
    /\ response = NoResponse
    /\ predict_log = <<>>
    /\ calls = [c \in Callers |-> IdleCall]
    /\ InitAppIdle
    /\ InitFormIdle
    /\ InitSessionIdle
    /\ InitChartsIdle

\* classifyEmail(text) up to its await: the text is refused, or the request
\* is sent (while the history has room for its answer)
classifyEmail(email) ==
    IF TooShort(email)
    THEN /\ error' = "Each email must have at least 10 characters"
         /\ UNCHANGED <<loading, in_flight>>
    ELSE /\ Len(predictionHistory) + Len(in_flight) < MaxHistory
         /\ loading' = TRUE
         /\ error' = ""
         /\ in_flight' = Append(in_flight, email)

\* onChange of the text field, which is disabled while loading
onChange ==
    \E value \in TypedTexts :
        /\ ~loading
        /\ emailText' = value
        /\ UNCHANGED <<loading, error, dropped, in_flight>>
        /\ UNCHANGED <<cleanVars, serviceVars, sessionVars, chartVars, appVars>>

\* an example is clicked
loadExample ==
    \E example \in exampleEmails :
        /\ emailText' = example
        /\ error' = ""
        /\ UNCHANGED <<loading, dropped, in_flight>>
        /\ UNCHANGED <<cleanVars, serviceVars, sessionVars, chartVars, appVars>>

\* the submit button is pressed
handleSubmit ==
    /\ ~SubmitDisabled
    /\ classifyEmail(emailText)
    /\ UNCHANGED <<emailText, dropped>>
    /\ UNCHANGED <<cleanVars, serviceVars, sessionVars, chartVars, appVars>>

\* the files are dropped on the form: a reader starts for each text file
handleDrop ==
    \E n \in 1..MaxDrop : \E files \in [1..n -> DroppedFiles] :
        LET texts == SelectSeq(files, LAMBDA f : f.type = "text/plain")
        IN  /\ Len(dropped) + Len(texts) <= MaxDrop
            /\ dropped' =
                   dropped \o [i \in 1..Len(texts) |-> texts[i].content]
            /\ error' = IF Len(texts) < Len(files)
                        THEN "Only .txt files are allowed" ELSE error
            /\ UNCHANGED <<emailText, loading, in_flight>>
            /\ UNCHANGED <<cleanVars, serviceVars, sessionVars, chartVars,
                           appVars>>

\* reader.onload of the i-th dropped file being read
FileIsRead ==
    \E i \in 1..Len(dropped) :
        /\ classifyEmail(dropped[i])
        /\ dropped' = Without(dropped, i)
        /\ UNCHANGED emailText
        /\ UNCHANGED <<cleanVars, serviceVars, sessionVars, chartVars, appVars>>

\* classifyEmail resuming without a finally block: loading is reset at the
\* end of the try block only
PredictAnswered_without_finally ==
    \E i \in 1..Len(in_flight), answers \in BOOLEAN :
        LET email == in_flight[i]
            answer ==
                predict_email_outcome(spam_detector, email, ~answers)
                    .response
        IN  /\ IF answer.status_code = 200
               THEN /\ addPrediction(prediction_object(answer.body, email))
                    /\ loading' = FALSE
                    /\ UNCHANGED error
               ELSE /\ error' = "Failed to classify one or more emails."
                    /\ UNCHANGED loading
                    /\ UNCHANGED <<appVars, sessionVars>>
            /\ in_flight' = Without(in_flight, i)
            /\ UNCHANGED <<emailText, dropped>>
            /\ UNCHANGED <<cleanVars, serviceVars, chartVars>>

\* a request in flight fails or is answered: classifyEmail resumes in its
\* catch block, or after its await with the response, and then runs finally
PredictAnswered ==
    \E i \in 1..Len(in_flight), answers \in BOOLEAN :
        LET email == in_flight[i]
            answer ==
                predict_email_outcome(spam_detector, email, ~answers)
                    .response
        IN  /\ IF answer.status_code = 200
               THEN /\ addPrediction(prediction_object(answer.body, email))
                    /\ UNCHANGED error
               ELSE /\ error' = "Failed to classify one or more emails."
                    /\ UNCHANGED <<appVars, sessionVars>>
            /\ loading' = FALSE
            /\ in_flight' = Without(in_flight, i)
            /\ UNCHANGED <<emailText, dropped>>
            /\ UNCHANGED <<cleanVars, serviceVars, chartVars>>

\* the clear button, which is disabled while loading
handleClear ==
    /\ ~loading
    /\ emailText' = <<>>
    /\ error' = ""
    /\ UNCHANGED <<loading, dropped, in_flight>>
    /\ UNCHANGED <<cleanVars, serviceVars, sessionVars, chartVars, appVars>>

NextForm ==
    \/ onChange
    \/ loadExample
    \/ handleSubmit
    \/ handleDrop
    \/ FileIsRead
    \/ PredictAnswered
    \/ handleClear

SpecForm == InitForm /\ [][NextForm]_vars

----------------------------------------------------------------------------
(* C21  loadFromJSON applies a file whole or not at all.                   *)

\* the text is not JSON, or not an array, or one of its elements is not an
\* object holding both prediction and confidence_percentage
Unloadable(content) ==
    LET parsed == JSON_parse(content)
    IN  \/ ~parsed.ok
        \/ parsed.value.type # "array"
        \/ \E k \in 1..Len(parsed.value.items) :
              LET item == parsed.value.items[k]
              IN  \/ item.type # "object"
                  \/ prediction_key \notin DOMAIN item.fields
                  \/ confidence_percentage_key \notin DOMAIN item.fields

\* C21: a file whose name does not end in .json is reported and never
\* read, and the load callback of a file whose content is not valid JSON,
\* not an array, or has an element lacking prediction or
\* confidence_percentage reports an error and leaves the history as it
\* was; a load callback leaves the history alone or appends every element
\* of the file, never a part of them.
C21_LoadIsAllOrNothing ==
    [][/\ \A k \in 1..Len(readers') :
             endsWith(readers'[k].name, <<".", "j", "s", "o", "n">>)
       /\ (/\ alerted' # alerted
           /\ alerted'.message = "Please select a valid JSON file")
          => UNCHANGED <<predictionHistory, readers>>
       /\ \A i \in 1..Len(readers) :
             (/\ readers' = Without(readers, i)
              /\ alerted'.message \in {"Successfully added predictions!",
                                       "Failed to load JSON file."})
             => /\ Unloadable(readers[i].content)
                   => /\ predictionHistory' = predictionHistory
                      /\ alerted'.message = "Failed to load JSON file."
                      /\ alerted'.detail # ""
                /\ \/ predictionHistory' = predictionHistory
                   \/ predictionHistory' = predictionHistory \o
                          JSON_parse(readers[i].content).value.items
      ]_vars

\* a file whose second record lacks confidence_percentage was refused
\* while the history held a record
C21_Witness ==
    /\ alerted.message = "Failed to load JSON file."
    /\ alerted.detail = "Invalid data structure in JSON file"
    /\ Len(predictionHistory) >= 1

----------------------------------------------------------------------------
(* The session: the App from its first render.  Its startup effect has     *)
(* sent GET /predictions and GET /statistics; the server that answers them *)
(* is not part of the repository, so what it answers is an input.  The     *)
(* history table (PredictionHistory) is mounted while tab 3 is shown.      *)

itemsPerPage == 10

\* a prediction the server has kept from an earlier session
StoredPrediction ==
    prediction_object(predict(ServedModel, <<"a">>), <<"a">>)

\* response.data.predictions of GET /predictions: nothing, or one record
\* more than a page of the table holds
ServerHistories ==
    {<<>>, [i \in 1..(itemsPerPage + 1) |-> StoredPrediction]}

\* response.data of GET /statistics
ServerStatistics ==
    {[statistics |-> [total_predictions |-> n]] : n \in {0, itemsPerPage + 1}}

InitSession ==
    /\ text = <<>>
    /\ cleaned = NoText
    /\ recleaned = NoText
    /\ cleanpc = "input"
    /\ InitUrlIdle
    /\ spam_detector = SpamDetector(ServedModel)
    /\ request = NoRequest
    /\ response = NoResponse
    /\ predict_log = <<>>
    /\ calls = [c \in Callers |-> IdleCall]
    /\ InitAppIdle
    /\ InitFormIdle
    /\ statistics = NoStatistics
    /\ stats_in_flight = TRUE
    /\ history_request = "pending"
    /\ tabValue = 0
    /\ page = 1
    /\ InitChartsIdle

\* loadPredictionHistory after its await: the startup GET /predictions is
\* answered, or fails and is only logged
loadPredictionHistory ==
    /\ history_request = "pending"
    /\ history_request' = "answered"
    /\ \E answered \in BOOLEAN, data \in ServerHistories :
          predictionHistory' = IF answered THEN data ELSE predictionHistory
    /\ UNCHANGED <<downloads, saved_data, readers, alerted>>
    /\ UNCHANGED <<statistics, stats_in_flight, tabValue, page>>
    /\ UNCHANGED <<cleanVars, serviceVars, chartVars, formVars>>

\* loadStatistics after its await: a GET /statistics is answered, or fails
\* and is only logged; other requests may stay unanswered
setStatistics ==
    /\ stats_in_flight
    /\ \E answered \in BOOLEAN, data \in ServerStatistics :
          statistics' = IF answered THEN data ELSE statistics
    /\ stats_in_flight' \in BOOLEAN
    /\ UNCHANGED <<history_request, tabValue, page>>
    /\ UNCHANGED <<cleanVars, serviceVars, chartVars, appVars, formVars>>

\* a tab is clicked: a TabPanel renders its children only while its tab is
\* shown, so the table leaving the screen loses its page and starts on
\* page 1 when it is shown again
handleTabChange ==
    \E newValue \in 0..3 :
        /\ tabValue' = newValue
        /\ page' = IF tabValue = 3 /\ newValue = 3 THEN page ELSE 1
        /\ UNCHANGED <<statistics, stats_in_flight, history_request>>
        /\ UNCHANGED <<cleanVars, serviceVars, chartVars, appVars, formVars>>

\* Math.ceil(predictions.length / itemsPerPage)
totalPages(records) == (Len(records) + itemsPerPage - 1) \div itemsPerPage

\* a sequence in reverse order
Reversed(s) == [i \in 1..Len(s) |-> s[Len(s) + 1 - i]]

\* [...predictions].reverse().slice(startIdx, startIdx + itemsPerPage)
displayedPredictions(records, p) ==
    LET startIdx == (p - 1) * itemsPerPage
        end == IF startIdx + itemsPerPage < Len(records)
               THEN startIdx + itemsPerPage ELSE Len(records)
    IN  SubSeq(Reversed(records), startIdx + 1, end)

\* onChange of the Pagination, rendered while the table has several pages
setPage ==
    /\ tabValue = 3
    /\ Len(predictionHistory) > 0
    /\ totalPages(predictionHistory) > 1
    /\ \E value \in 1..totalPages(predictionHistory) : page' = value
    /\ UNCHANGED <<statistics, stats_in_flight, history_request, tabValue>>
    /\ UNCHANGED <<cleanVars, serviceVars, chartVars, appVars, formVars>>

NextSession ==
    \/ loadPredictionHistory
    \/ setStatistics
    \/ onPrediction
    \/ handleClearHistory
    \/ handleTabChange
    \/ setPage

SpecSession == InitSession /\ [][NextSession]_vars

\* C22: Clear history empties the displayed history and the statistics
\* only after the user has confirmed and the DELETE /predictions request
\* has succeeded; if the user declines or the request fails, the history
\* and the statistics are unchanged.
C22_ClearOnlyOnSuccess ==
    [][/\ (/\ alerted' # alerted
           /\ alerted'.message = "All predictions cleared successfully")
          => /\ predictionHistory' = <<>>
             /\ statistics' = NoStatistics
       /\ (/\ alerted' # alerted
           /\ \/ alerted'.message = "Failed to clear predictions"
              \/ alerted'.detail = "declined")
          => UNCHANGED <<predictionHistory, statistics>>
       /\ (\/ statistics # NoStatistics /\ statistics' = NoStatistics
           \/ /\ predictionHistory # <<>> /\ predictionHistory' = <<>>
              /\ history_request' = history_request)
          => alerted'.message = "All predictions cleared successfully"
      ]_vars

\* a confirmed clear has failed with a history and statistics on the
\* screen
C22_Witness ==
    /\ alerted.message = "Failed to clear predictions"
    /\ predictionHistory # <<>>
    /\ statistics # NoStatistics

\* C24: once addPrediction has appended a record to the history, the
\* record stays in the history in every later state until a successful
\* clear, also when the startup GET /predictions is answered after the
\* append: a step in which a record of the history is lost is a successful
\* clear.
C24_AppendedRecordStays ==
    [][(\E k \in 1..Len(predictionHistory) :
           \A j \in 1..Len(predictionHistory') :
              predictionHistory'[j] # predictionHistory[k])
       => /\ predictionHistory' = <<>>
          /\ alerted'.message = "All predictions cleared successfully"
          /\ history_request' = history_request
      ]_vars

\* C28: in the history table, whenever the history holds n >= 1 records the
\* page lies in 1..ceil(n / 10) and the table shows at least one row.
C28_PageShowsRows ==
    (tabValue = 3 /\ Len(predictionHistory) >= 1) =>
        /\ page \in 1..totalPages(predictionHistory)
        /\ Len(displayedPredictions(predictionHistory, page)) >= 1

----------------------------------------------------------------------------
(* The Charts run: the component renders the predictions it is given.      *)

lastCount == 10         \* predictions.slice(-10)
binSize == 10           \* getConfidenceDistribution(predictions, 10)

ChartRecord(p, n) ==
    JsObject((prediction_key :> JsString(p))
             @@ (confidence_percentage_key :> JsNumber(n)))

\* a record loaded from a file of another tool, without the optional field
RecordWithoutConfidence ==
    JsObject(prediction_key :> JsString(<<"H", "a", "m">>))

\* predictions of 0%, just under 10%, 10%, 50%, just under 100% and 100%
ChartRecords ==
    { ChartRecord(<<"H", "a", "m">>, 0),
      ChartRecord(<<"S", "p", "a", "m">>, binSize * ConfDen - 1),
      ChartRecord(<<"H", "a", "m">>, binSize * ConfDen),
      ChartRecord(<<"H", "a", "m">>, 50 * ConfDen),
      ChartRecord(<<"S", "p", "a", "m">>, 100 * ConfDen - 1),
      ChartRecord(<<"S", "p", "a", "m">>, 100 * ConfDen),
      RecordWithoutConfidence }

\* the i-th prediction of a long history: i percent
NumberedRecord(i) ==
    ChartRecord(IF i % 2 = 0 THEN <<"S", "p", "a", "m">>
                ELSE <<"H", "a", "m">>, i * ConfDen)

\* the component is given any short list of predictions, or a history of
\* up to MaxPoints more than the chart of the last ten shows
InitCharts ==
    /\ text = <<>>
    /\ cleaned = NoText
    /\ recleaned = NoText
    /\ cleanpc = "input"
    /\ InitUrlIdle
    /\ InitService
    /\ InitAppIdle
    /\ InitFormIdle
    /\ InitSessionIdle
    /\ \/ \E n \in 0..MaxPoints :
             \E records \in [1..n -> ChartRecords] :
                props = [predictions |-> records]
       \/ \E n \in 1..(lastCount + MaxPoints) :
             props = [predictions |-> [i \in 1..n |-> NumberedRecord(i)]]
    /\ rendered = NotRendered

\* p.confidence_percentage !== undefined
HasConfidence(p) == confidence_percentage_key \in DOMAIN p.fields

\* the value of bin binIndex (from 0) once the loop has run
BinCount(records, binsCount, binIndex) ==
    Cardinality({i \in 1..Len(records) :
        /\ HasConfidence(records[i])
        /\ LET cp == records[i].fields[confidence_percentage_key].number
               floor == cp \div (binSize * ConfDen)
           IN  binIndex = floor})

\* getConfidenceDistribution without Math.min: a value of 100 falls
\* outside the bins
getConfidenceDistribution_unclamped(records, size) ==
    LET binsCount == (100 + size - 1) \div size
    IN  [labels |-> [i \in 1..binsCount |->
                        FormatNat((i - 1) * size) \o <<"-">>
                            \o FormatNat(i * size) \o <<"%">>],
         data |-> [i \in 1..binsCount |->
                      BinCount(records, binsCount, i - 1)]]

\* getConfidenceDistribution(predictions, binSize): element i of data is
\* bins[i - 1]
getConfidenceDistribution(records, size) ==
    LET binsCount == (100 + size - 1) \div size
        Clamped(binIndex) ==
            Cardinality({i \in 1..Len(records) :
                /\ HasConfidence(records[i])
                /\ LET cp ==
                           records[i].fields[confidence_percentage_key].number
                       floor == cp \div (size * ConfDen)
                   IN  binIndex = IF floor < binsCount - 1
                                  THEN floor ELSE binsCount - 1})
    IN  [labels |-> [i \in 1..binsCount |->
                        FormatNat((i - 1) * size) \o <<"-">>
                            \o FormatNat(i * size) \o <<"%">>],
         data |-> [i \in 1..binsCount |-> Clamped(i - 1)]]

\* predictions.slice(-10)
lastTenPredictions(records) ==
    SubSeq(records,
           IF Len(records) > lastCount THEN Len(records) - lastCount + 1
           ELSE 1,
           Len(records))

\* p.confidence_percentage, undefined when the record has none
confidence_of(p) ==
    IF HasConfidence(p) THEN p.fields[confidence_percentage_key]
    ELSE [type |-> "undefined", number |-> 0, string |-> <<>>]

\* labels and data of confidenceData and confidenceLineData: i counts from 0
confidenceData(records) ==
    LET lastTen == lastTenPredictions(records)
    IN  [labels |-> [k \in 1..Len(lastTen) |->
                        <<"E", "m", "a", "i", "l", " ">> \o
                        FormatNumber(Len(records) - 9 + (k - 1))],
         data |-> [k \in 1..Len(lastTen) |-> confidence_of(lastTen[k])]]

\* function Charts({ predictions }): the chart data of one render
Charts ==
    /\ rendered = NotRendered
    /\ rendered' =
           [state |-> "rendered",
            confidenceData |-> confidenceData(props.predictions),
            distribution |->
                getConfidenceDistribution(props.predictions, binSize)]
    /\ UNCHANGED props
    /\ UNCHANGED <<cleanVars, serviceVars, sessionVars, appVars, formVars>>

NextCharts == Charts

SpecCharts == InitCharts /\ [][NextCharts]_vars

\* C26: the chart of the last ten emails plots the last min(10, n)
\* predictions of a history of n >= 1 predictions and labels each of them
\* 'Email k', k being the position (from 1) of the prediction in the whole
\* history.
C26_LastTenLabelledByPosition ==
    (rendered # NotRendered /\ Len(props.predictions) >= 1) =>
        LET n == Len(props.predictions)
            shown == IF n < lastCount THEN n ELSE lastCount
            chart == rendered.confidenceData
        IN  /\ Len(chart.labels) = shown
            /\ Len(chart.data) = shown
            /\ \A k \in 1..shown :
                  LET position == n - shown + k
                  IN  /\ chart.data[k] =
                             confidence_of(props.predictions[position])
                      /\ chart.labels[k] =
                             <<"E", "m", "a", "i", "l", " ">> \o
                             FormatNat(position)

RECURSIVE SumOf(_)
SumOf(s) == IF s = <<>> THEN 0 ELSE Head(s) + SumOf(Tail(s))

\* C29: getConfidenceDistribution(predictions, 10) returns exactly 10 bins
\* whose counts sum to the number of predictions that have a
\* confidence_percentage; each value v in 0..100 is counted once, in bin
\* min(floor(v / 10), 9): bin b (from 0) counts the values with
\* 10 b <= v < 10 (b + 1), and the last bin the value 100 as well.
C29_TenBinsCountEveryValue ==
    rendered # NotRendered =>
        LET records == props.predictions
            bins == rendered.distribution.data
            Valued == {i \in 1..Len(records) : HasConfidence(records[i])}
            v(i) == records[i].fields[confidence_percentage_key].number
        IN  /\ Len(bins) = 10
            /\ Len(rendered.distribution.labels) = 10
            /\ SumOf(bins) = Cardinality(Valued)
            /\ \A b \in 0..9 :
                  bins[b + 1] = Cardinality({i \in Valued :
                      \/ /\ 10 * b * ConfDen <= v(i)
                         /\ v(i) < 10 * (b + 1) * ConfDen
                      \/ b = 9 /\ v(i) = 100 * ConfDen})

\* a value of exactly 100, a value just under 10 and a prediction without
\* the field have been binned
C29_Witness ==
    /\ rendered # NotRendered
    /\ Len(props.predictions) = 2
    /\ \E i \in 1..2 :
          /\ HasConfidence(props.predictions[i])
          /\ props.predictions[i].fields[confidence_percentage_key].number
                 = 100 * ConfDen
    /\ \E i \in 1..2 : ~HasConfidence(props.predictions[i])
    /\ rendered.distribution.data[10] = 1
    /\ SumOf(rendered.distribution.data) = 1

----------------------------------------------------------------------------
(* C23  every request that sets loading is answered and resets it.  The    *)
(* promise of axios.post settles: a request in flight is answered or       *)
(* fails, which is the weak fairness of PredictAnswered.                   *)

SpecFormFair == SpecForm /\ WF_vars(PredictAnswered)

\* C23: every classification request that sets loading to true is
\* eventually followed by loading being false again: the step in which the
\* response or the failure of a request arrives sets loading to false,
\* whether the request succeeded or failed, and it arrives eventually; on
\* success the prediction of the text sent is handed to onPrediction and
\* on failure onPrediction is not called (the history stays as it was) and
\* a non-empty error message is set.
C23_LoadingIsReset ==
    /\ [][\A i \in 1..Len(in_flight) :
             in_flight' = Without(in_flight, i) =>
                /\ loading' = FALSE
                /\ \/ /\ Len(predictionHistory') = Len(predictionHistory) + 1
                      /\ \E j \in 1..Len(in_flight) :
                            predictionHistory'[Len(predictionHistory')]
                                .fields[text_key].string = in_flight[j]
                      /\ error' = error
                   \/ /\ predictionHistory' = predictionHistory
                      /\ error' # ""
         ]_vars
    /\ (loading ~> ~loading)

\* a request has failed: loading is false again, the error is set and
\* nothing was recorded
C23_Witness ==
    /\ ~loading
    /\ error = "Failed to classify one or more emails."
    /\ in_flight = <<>>
    /\ predictionHistory = <<>>

----------------------------------------------------------------------------
(* C25  loading while requests are in flight.                              *)

\* C25: in the drag-and-drop classifier loading is true in every state in
\* which at least one /predict request is in flight, so the submit and
\* clear buttons stay disabled until every request started by dropping
\* several files has completed.
C25_LoadingWhileInFlight ==
    in_flight # <<>> => loading

====
